---- MODULE Spec2Model ----
(***************************************************************************)
(* Model of src/utils: DataLoader.get_returns, MetricsCalculator and the   *)
(* column checks of PlotUtils.                                             *)
(*                                                                         *)
(* Numbers.  The code computes in IEEE double precision through pandas and *)
(* numpy.  The model keeps the special values (NaN, +inf, -inf) and        *)
(* computes the finite ones exactly: a finite value is q * sqrt(r) with q  *)
(* and r exact rationals (r = 1 for a rational).  Rounding is not          *)
(* modelled.                                                               *)
(***************************************************************************)
EXTENDS Integers, Sequences, FiniteSets

(***************************************************************************)
(* Bounds of the model.                                                    *)
(***************************************************************************)
MaxRows == 3
MaxPrice == 3

(***************************************************************************)
(* Exact rationals n/d, d > 0, in lowest terms.                            *)
(***************************************************************************)
Abs(x) == IF x < 0 THEN -x ELSE x

RECURSIVE Gcd(_, _)
Gcd(a, b) == IF b = 0 THEN a ELSE Gcd(b, a % b)

Rat(n, d) ==
  LET s == IF d < 0 THEN -1 ELSE 1
      g == Gcd(Abs(n), Abs(d))
  IN  [n |-> (s * n) \div g, d |-> (s * d) \div g]

Zero == [n |-> 0, d |-> 1]
One == [n |-> 1, d |-> 1]

RAdd(a, b) ==
  LET g == Gcd(a.d, b.d)
  IN  Rat(a.n * (b.d \div g) + b.n * (a.d \div g), (a.d \div g) * b.d)

RSub(a, b) == RAdd(a, [n |-> -b.n, d |-> b.d])

RMul(a, b) ==
  LET g1 == Gcd(Abs(a.n), b.d)
      g2 == Gcd(Abs(b.n), a.d)
  IN  [n |-> (a.n \div g1) * (b.n \div g2), d |-> (a.d \div g2) * (b.d \div g1)]

\* a / b, b # 0
RDiv(a, b) ==
  RMul(a, IF b.n < 0 THEN [n |-> -b.d, d |-> -b.n] ELSE [n |-> b.d, d |-> b.n])

RLess(a, b) == a.n * b.d < b.n * a.d

(***************************************************************************)
(* A scalar result: NaN, signed infinity, or the finite value q * sqrt(r)  *)
(* (r is kept as computed, it is not reduced to a square-free radicand).   *)
(***************************************************************************)
NaN == [k |-> "nan", q |-> Zero, r |-> One]
Inf(s) == [k |-> "inf", q |-> [n |-> s, d |-> 1], r |-> One]
Surd(q, r) ==
  IF q.n = 0 \/ r.n = 0 THEN [k |-> "fin", q |-> Zero, r |-> One]
  ELSE [k |-> "fin", q |-> q, r |-> r]
Fin(q) == [k |-> "fin", q |-> q, r |-> One]
Num(i) == [k |-> "fin", q |-> [n |-> i, d |-> 1], r |-> One]

IsNaN(x) == x.k = "nan"
IsFinite(x) == x.k = "fin"
FSign(x) == IF x.q.n > 0 THEN 1 ELSE IF x.q.n < 0 THEN -1 ELSE 0
IsZero(x) == x.k = "fin" /\ x.q.n = 0

\* a - b; the finite operands are rationals
FSub(a, b) ==
  IF a.k = "nan" \/ b.k = "nan" THEN NaN
  ELSE IF a.k = "inf" /\ b.k = "inf"
       THEN IF FSign(a) # FSign(b) THEN a ELSE NaN
  ELSE IF a.k = "inf" THEN a
  ELSE IF b.k = "inf" THEN Inf(-FSign(b))
  ELSE Fin(RSub(a.q, b.q))

FMul(a, b) ==
  IF a.k = "nan" \/ b.k = "nan" THEN NaN
  ELSE IF a.k = "inf" \/ b.k = "inf"
       THEN IF IsZero(a) \/ IsZero(b) THEN NaN ELSE Inf(FSign(a) * FSign(b))
  ELSE Surd(RMul(a.q, b.q), RMul(a.r, b.r))

\* a / b with numpy's float64 semantics: x/0 is +-inf, 0/0 is NaN, no raise
FDiv(a, b) ==
  IF a.k = "nan" \/ b.k = "nan" THEN NaN
  ELSE IF a.k = "inf"
       THEN IF b.k = "inf" THEN NaN
            ELSE Inf(FSign(a) * (IF FSign(b) < 0 THEN -1 ELSE 1))
  ELSE IF b.k = "inf" THEN Num(0)
  ELSE IF IsZero(b)
       THEN IF IsZero(a) THEN NaN ELSE Inf(FSign(a))
  ELSE Surd(RDiv(a.q, b.q), RDiv(a.r, b.r))

\* sqrt of a rational
FSqrt(a) ==
  IF a.k = "nan" \/ FSign(a) < 0 THEN NaN
  ELSE IF a.k = "inf" THEN a
  ELSE Surd(One, a.q)

(***************************************************************************)
(* Program constants.                                                      *)
(***************************************************************************)
TradingDays == 252
Percent == 100
DefaultRiskFreeRate == Rat(1, 100)
AdjClose == "Adj Close"

(***************************************************************************)
(* pandas / numpy operations on a series.  A series is a sequence of       *)
(* rationals; the missing value (NaN) of a series is NA.  Prices are       *)
(* positive, so every quotient of prices is finite.                        *)
(***************************************************************************)
NA == [n |-> 0, d |-> 0]

\* Series.diff() in place of pct_change(): element i is s[i] - s[i-1]
pct_change_diff(s) ==
  [i \in 1..Len(s) |-> IF i = 1 THEN NA ELSE RSub(s[i], s[i - 1])]

\* Series.pct_change(): element i is s[i]/s[i-1] - 1, the first is missing
pct_change(s) ==
  [i \in 1..Len(s) |-> IF i = 1 THEN NA ELSE RSub(RDiv(s[i], s[i - 1]), One)]

\* Series.dropna()
dropna(s) == SelectSeq(s, LAMBDA x : x # NA)

\* series - scalar, scalar + series
SeriesSub(s, c) == [i \in 1..Len(s) |-> RSub(s[i], c)]
SeriesAdd(c, s) == [i \in 1..Len(s) |-> RAdd(c, s[i])]

RECURSIVE Sum(_)
Sum(s) == IF s = << >> THEN Zero ELSE RAdd(s[1], Sum(Tail(s)))

\* the mean of a series that is not empty
Mean(s) == RDiv(Sum(s), [n |-> Len(s), d |-> 1])

\* Series.mean(): NaN for the empty series
mean(s) == IF Len(s) = 0 THEN NaN ELSE Fin(Mean(s))

\* sum over i of (x[i] - mean(x)) * (y[i] - mean(y))
SumDevProd(x, y) ==
  LET mx == Mean(x)
      my == Mean(y)
  IN  Sum([i \in 1..Len(x) |-> RMul(RSub(x[i], mx), RSub(y[i], my))])

\* the population variance (ddof = 0, as np.var and np.std default to)
var_population(s) ==
  IF Len(s) = 0 THEN NaN
  ELSE Fin(RDiv(SumDevProd(s, s), [n |-> Len(s), d |-> 1]))

\* Series.var(): ddof = 1, NaN when count <= ddof
var(s) ==
  IF Len(s) <= 1 THEN NaN
  ELSE Fin(RDiv(SumDevProd(s, s), [n |-> Len(s) - 1, d |-> 1]))

\* Series.std(): ddof = 1
std(s) == FSqrt(var(s))

\* np.cov(x, y, bias=True)[0][1]: divisor n
cov_biased(x, y) ==
  IF Len(x) = 0 THEN NaN
  ELSE Fin(RDiv(SumDevProd(x, y), [n |-> Len(x), d |-> 1]))

\* np.cov(x, y)[0][1] for series of equal length: ddof = 1; with one
\* observation the factor 1/(n - 1) is inf and the product 0 * inf is NaN
cov(x, y) ==
  IF Len(x) - 1 <= 0 THEN NaN
  ELSE Fin(RDiv(SumDevProd(x, y), [n |-> Len(x) - 1, d |-> 1]))

\* Series.corr(other), Pearson: np.corrcoef(a, b)[0, 1]
corr(x, y) == FDiv(FDiv(cov(x, y), FSqrt(cov(x, x))), FSqrt(cov(y, y)))

\* Series.cumprod()
RECURSIVE cumprod(_)
cumprod(s) ==
  IF Len(s) <= 1 THEN s
  ELSE LET h == cumprod(SubSeq(s, 1, Len(s) - 1))
       IN  Append(h, RMul(h[Len(h)], s[Len(s)]))

\* Series.cummax()
RECURSIVE cummax(_)
cummax(s) ==
  IF Len(s) <= 1 THEN s
  ELSE LET h == cummax(SubSeq(s, 1, Len(s) - 1))
       IN  Append(h, IF RLess(h[Len(h)], s[Len(s)]) THEN s[Len(s)] ELSE h[Len(h)])

\* the least element of a series that is not empty
RECURSIVE Least(_)
Least(s) ==
  IF Len(s) = 1 THEN s[1]
  ELSE LET m == Least(Tail(s))
       IN  IF RLess(s[1], m) THEN s[1] ELSE m

\* Series.min(): NaN for the empty series
SeriesMin(s) == IF Len(s) = 0 THEN NaN ELSE Fin(Least(s))

\* excess_returns[excess_returns <= 0]
NonPositive(s) == SelectSeq(s, LAMBDA x : x.n <= 0)

\* excess_returns[excess_returns < 0]
Negative(s) == SelectSeq(s, LAMBDA x : x.n < 0)

(***************************************************************************)
(* Outcome of a call: a returned value or a raised exception.  arith tells *)
(* whether any arithmetic on the series was performed before the call      *)
(* ended; figure, drawn and shown tell whether plt.figure, a drawing call   *)
(* and plt.show were reached.                                              *)
(***************************************************************************)
NoValue == << >>
Result(o, v, a, f, dr, sh) ==
  [outcome |-> o, value |-> v, arith |-> a,
   figure |-> f, drawn |-> dr, shown |-> sh]
Return(v) == Result("ok", v, TRUE, FALSE, FALSE, FALSE)
Raise(e) == Result(e, NoValue, FALSE, FALSE, FALSE, FALSE)

(***************************************************************************)
(* A table (pd.DataFrame): its column names and the 'Adj Close' series.    *)
(* df[col] raises KeyError when the column is absent.                      *)
(***************************************************************************)
\* df.get(col, empty series) in place of df[col]: no raise
getitem_default(d, col) ==
  Result("ok", IF col \in d.columns THEN d.adj ELSE << >>,
         FALSE, FALSE, FALSE, FALSE)

getitem(d, col) ==
  IF col \in d.columns
  THEN Result("ok", d.adj, FALSE, FALSE, FALSE, FALSE)
  ELSE Raise("KeyError")

(***************************************************************************)
(* DataLoader.get_returns                                                  *)
(***************************************************************************)
get_returns(d) ==
  IF AdjClose \notin d.columns THEN Raise("ValueError")
  ELSE LET c == getitem(d, AdjClose)
       IN  IF c.outcome # "ok" THEN c
           ELSE Return(dropna(pct_change(c.value)))

(***************************************************************************)
(* MetricsCalculator                                                       *)
(***************************************************************************)
Sqrt252 == Surd(One, [n |-> TradingDays, d |-> 1])
Daily(risk_free_rate) == RDiv(risk_free_rate, [n |-> TradingDays, d |-> 1])

\* a guard that returns 0.0 when the standard deviation is not positive
calculate_sharpe_ratio_guarded(d, risk_free_rate) ==
  LET c == getitem(d, AdjClose)
  IN  IF c.outcome # "ok" THEN c
      ELSE LET returns == dropna(pct_change(c.value))
               excess_returns == SeriesSub(returns, Daily(risk_free_rate))
               sd == std(excess_returns)
           IN  IF IsNaN(sd) \/ IsZero(sd) THEN Return(Num(0))
               ELSE Return(FDiv(FMul(Sqrt252, mean(excess_returns)), sd))

calculate_sharpe_ratio(d, risk_free_rate) ==
  LET c == getitem(d, AdjClose)
  IN  IF c.outcome # "ok" THEN c
      ELSE LET returns == dropna(pct_change(c.value))
               excess_returns == SeriesSub(returns, Daily(risk_free_rate))
           IN  Return(FDiv(FMul(Sqrt252, mean(excess_returns)),
                           std(excess_returns)))

calculate_sortino_ratio(d, risk_free_rate) ==
  LET c == getitem(d, AdjClose)
  IN  IF c.outcome # "ok" THEN c
      ELSE LET returns == dropna(pct_change(c.value))
               excess_returns == SeriesSub(returns, Daily(risk_free_rate))
               downside_returns == Negative(excess_returns)
           IN  Return(FDiv(FMul(Sqrt252, mean(excess_returns)),
                           std(downside_returns)))

calculate_max_drawdown(d) ==
  LET c == getitem(d, AdjClose)
  IN  IF c.outcome # "ok" THEN c
      ELSE LET cumulative_returns ==
                 cumprod(SeriesAdd(One, dropna(pct_change(c.value))))
               peak == cummax(cumulative_returns)
               drawdown ==
                 [i \in 1..Len(peak) |->
                    RDiv(RSub(cumulative_returns[i], peak[i]), peak[i])]
               max_drawdown == SeriesMin(drawdown)
           IN  Return(FMul(max_drawdown, Num(Percent)))

calculate_volatility(d) ==
  LET c == getitem(d, AdjClose)
  IN  IF c.outcome # "ok" THEN c
      ELSE LET returns == dropna(pct_change(c.value))
               volatility == FMul(std(returns), Sqrt252)
           IN  Return(FMul(volatility, Num(Percent)))

\* np.cov raises ValueError when the two series differ in length
calculate_beta(d, benchmark_returns) ==
  LET c == getitem(d, AdjClose)
  IN  IF c.outcome # "ok" THEN c
      ELSE LET stock_returns == dropna(pct_change(c.value))
           IN  IF Len(stock_returns) # Len(benchmark_returns)
               THEN [Raise("ValueError") EXCEPT !.arith = TRUE]
               ELSE LET covariance == cov(stock_returns, benchmark_returns)
                        benchmark_variance == var(benchmark_returns)
                    IN  Return(FDiv(covariance, benchmark_variance))

calculate_alpha(d, benchmark_returns, risk_free_rate) ==
  LET c == getitem(d, AdjClose)
  IN  IF c.outcome # "ok" THEN c
      ELSE LET stock_returns == dropna(pct_change(c.value))
               excess_stock_returns ==
                 SeriesSub(stock_returns, Daily(risk_free_rate))
               excess_benchmark_returns ==
                 SeriesSub(benchmark_returns, Daily(risk_free_rate))
               beta == calculate_beta(d, benchmark_returns)
           IN  IF beta.outcome # "ok" THEN [beta EXCEPT !.arith = TRUE]
               ELSE LET alpha ==
                          FSub(mean(excess_stock_returns),
                               FMul(beta.value, mean(excess_benchmark_returns)))
                    IN  Return(FMul(alpha, Num(TradingDays)))

calculate_correlation(d, benchmark_returns) ==
  LET c == getitem(d, AdjClose)
  IN  IF c.outcome # "ok" THEN c
      ELSE LET stock_returns == dropna(pct_change(c.value))
           IN  Return(corr(stock_returns, benchmark_returns))

\* The dict literal evaluates its seven values in order; the first call that
\* raises ends calculate_metrics and no dict is built.
MetricKeys ==
  << "Sharpe Ratio", "Sortino Ratio", "Max Drawdown", "Volatility",
     "Beta", "Alpha", "Correlation" >>

\* the Sortino entry computed with the default rate, not the one passed in
calculate_metrics_default_rate(d, benchmark_returns, risk_free_rate) ==
  LET rs == << calculate_sharpe_ratio(d, risk_free_rate),
               calculate_sortino_ratio(d, DefaultRiskFreeRate),
               calculate_max_drawdown(d),
               calculate_volatility(d),
               calculate_beta(d, benchmark_returns),
               calculate_alpha(d, benchmark_returns, risk_free_rate),
               calculate_correlation(d, benchmark_returns) >>
  IN  IF \E i \in 1..7 : rs[i].outcome # "ok" THEN Raise("KeyError")
      ELSE Return([i \in 1..7 |-> [key |-> MetricKeys[i], value |-> rs[i].value]])

calculate_metrics(d, benchmark_returns, risk_free_rate) ==
  LET rs == << calculate_sharpe_ratio(d, risk_free_rate),
               calculate_sortino_ratio(d, risk_free_rate),
               calculate_max_drawdown(d),
               calculate_volatility(d),
               calculate_beta(d, benchmark_returns),
               calculate_alpha(d, benchmark_returns, risk_free_rate),
               calculate_correlation(d, benchmark_returns) >>
      failed == {i \in 1..7 : rs[i].outcome # "ok"}
  IN  IF failed = {}
      THEN Return([i \in 1..7 |-> [key |-> MetricKeys[i], value |-> rs[i].value]])
      ELSE LET f == CHOOSE i \in failed : \A j \in failed : i <= j
           IN  [rs[f] EXCEPT !.arith = \E j \in 1..f : rs[j].arith]

(***************************************************************************)
(* PlotUtils: the order of the column check, plt.figure, the drawing call  *)
(* and plt.show.                                                           *)
(***************************************************************************)
Plotted == Result("ok", NoValue, FALSE, TRUE, TRUE, TRUE)

\* plt.figure() is line 26, self.df['Adj Close'] is line 27
plot_price(d) ==
  LET c == getitem(d, AdjClose)
  IN  IF c.outcome # "ok" THEN [c EXCEPT !.figure = TRUE] ELSE Plotted

plot_returns(d) ==
  LET c == getitem(d, AdjClose)
  IN  IF c.outcome # "ok" THEN c ELSE [Plotted EXCEPT !.arith = TRUE]

plot_correlation_matrix(d) == [Plotted EXCEPT !.arith = TRUE]

plot_moving_average(d) ==
  LET c == getitem(d, AdjClose)
  IN  IF c.outcome # "ok" THEN c ELSE [Plotted EXCEPT !.arith = TRUE]

plot_volatility(d) ==
  LET c == getitem(d, AdjClose)
  IN  IF c.outcome # "ok" THEN c ELSE [Plotted EXCEPT !.arith = TRUE]

plot_histogram(d, column) ==
  IF column \notin d.columns THEN Raise("ValueError") ELSE Plotted

plot_boxplot(d, column) ==
  IF column \notin d.columns THEN Raise("ValueError") ELSE Plotted

plot_time_series(d, columns) ==
  IF ~(\A col \in columns : col \in d.columns) THEN Raise("ValueError")
  ELSE Plotted

plot_scatter(d, x_column, y_column) ==
  IF x_column \notin d.columns \/ y_column \notin d.columns
  THEN Raise("ValueError")
  ELSE Plotted

plot_heatmap(d) == [Plotted EXCEPT !.arith = TRUE]

(***************************************************************************)
(* State.                                                                  *)
(*   df         the table held by the calculator, the loader's caller and  *)
(*              the plotter                                                *)
(*   benchmark  the caller's benchmark return series                       *)
(*   fresh      the table and the benchmark as they were at construction   *)
(*   last       the last call made: its name, arguments and outcome        *)
(***************************************************************************)
VARIABLES df, benchmark, fresh, last
vars == << df, benchmark, fresh, last >>

OtherColumn == "Volume"
ColumnNames == {AdjClose, OtherColumn}
Prices == {[n |-> p, d |-> 1] : p \in 1..MaxPrice}
PriceSeries == UNION {[1..n -> Prices] : n \in 2..MaxRows}
Tables ==
  {[columns |-> {AdjClose, OtherColumn}, adj |-> s] : s \in PriceSeries}
  \cup {[columns |-> {OtherColumn}, adj |-> << >>]}

RiskFreeRates == {DefaultRiskFreeRate, Zero}

\* The benchmark is aligned with the table's return series (one value per
\* return): the table's own return series, a flat series or an alternating
\* one.
Flat(n) == [i \in 1..n |-> [n |-> 1, d |-> 2]]
Alternating(n) ==
  [i \in 1..n |-> IF i % 2 = 1 THEN [n |-> 1, d |-> 2] ELSE [n |-> -1, d |-> 2]]
Benchmarks(d) ==
  IF AdjClose \in d.columns
  THEN {dropna(pct_change(d.adj)),
        Flat(Len(d.adj) - 1), Alternating(Len(d.adj) - 1)}
  ELSE UNION {{Flat(n), Alternating(n)} : n \in 1..(MaxRows - 1)}

Call(op, rf, cols, res) == [op |-> op, rf |-> rf, cols |-> cols, res |-> res]

Init ==
  /\ df \in Tables
  /\ benchmark \in Benchmarks(df)
  /\ fresh = [df |-> df, benchmark |-> benchmark]
  /\ last = Call("init", NA, {}, Raise("none"))

\* dropna(inplace=True) on the frame after a shift: the first row is gone
AfterCallInPlace(d) == [d EXCEPT !.adj = IF @ = << >> THEN @ ELSE Tail(@)]

\* self.df after a method of MetricsCalculator has run: no method assigns
\* to it, and pct_change and dropna return new series
AfterCall(d) == d

GetReturns ==
  /\ last' = Call("get_returns", NA, {}, get_returns(df))
  /\ UNCHANGED << df, benchmark, fresh >>

CalculateSharpeRatio ==
  \E rf \in RiskFreeRates :
    /\ last' = Call("calculate_sharpe_ratio", rf, {},
                    calculate_sharpe_ratio(df, rf))
    /\ df' = AfterCall(df)
    /\ UNCHANGED << benchmark, fresh >>

CalculateSortinoRatio ==
  \E rf \in RiskFreeRates :
    /\ last' = Call("calculate_sortino_ratio", rf, {},
                    calculate_sortino_ratio(df, rf))
    /\ df' = AfterCall(df)
    /\ UNCHANGED << benchmark, fresh >>

CalculateMaxDrawdown ==
  /\ last' = Call("calculate_max_drawdown", NA, {}, calculate_max_drawdown(df))
  /\ df' = AfterCall(df)
  /\ UNCHANGED << benchmark, fresh >>

CalculateVolatility ==
  /\ last' = Call("calculate_volatility", NA, {}, calculate_volatility(df))
  /\ df' = AfterCall(df)
  /\ UNCHANGED << benchmark, fresh >>

CalculateBeta ==
  /\ last' = Call("calculate_beta", NA, {}, calculate_beta(df, benchmark))
  /\ df' = AfterCall(df)
  /\ UNCHANGED << benchmark, fresh >>

CalculateAlpha ==
  \E rf \in RiskFreeRates :
    /\ last' = Call("calculate_alpha", rf, {},
                    calculate_alpha(df, benchmark, rf))
    /\ df' = AfterCall(df)
    /\ UNCHANGED << benchmark, fresh >>

CalculateCorrelation ==
  /\ last' = Call("calculate_correlation", NA, {},
                  calculate_correlation(df, benchmark))
  /\ df' = AfterCall(df)
  /\ UNCHANGED << benchmark, fresh >>

CalculateMetrics ==
  \E rf \in RiskFreeRates :
    /\ last' = Call("calculate_metrics", rf, {},
                    calculate_metrics(df, benchmark, rf))
    /\ df' = AfterCall(df)
    /\ UNCHANGED << benchmark, fresh >>

PlotPrice ==
  /\ last' = Call("plot_price", NA, {}, plot_price(df))
  /\ UNCHANGED << df, benchmark, fresh >>

PlotReturns ==
  /\ last' = Call("plot_returns", NA, {}, plot_returns(df))
  /\ UNCHANGED << df, benchmark, fresh >>

PlotCorrelationMatrix ==
  /\ last' = Call("plot_correlation_matrix", NA, {}, plot_correlation_matrix(df))
  /\ UNCHANGED << df, benchmark, fresh >>

PlotMovingAverage ==
  /\ last' = Call("plot_moving_average", NA, {}, plot_moving_average(df))
  /\ UNCHANGED << df, benchmark, fresh >>

PlotVolatility ==
  /\ last' = Call("plot_volatility", NA, {}, plot_volatility(df))
  /\ UNCHANGED << df, benchmark, fresh >>

PlotHistogram ==
  \E column \in ColumnNames :
    /\ last' = Call("plot_histogram", NA, {column}, plot_histogram(df, column))
    /\ UNCHANGED << df, benchmark, fresh >>

PlotBoxplot ==
  \E column \in ColumnNames :
    /\ last' = Call("plot_boxplot", NA, {column}, plot_boxplot(df, column))
    /\ UNCHANGED << df, benchmark, fresh >>

PlotTimeSeries ==
  \E columns \in SUBSET ColumnNames :
    /\ last' = Call("plot_time_series", NA, columns,
                    plot_time_series(df, columns))
    /\ UNCHANGED << df, benchmark, fresh >>

PlotScatter ==
  \E x_column \in ColumnNames, y_column \in ColumnNames :
    /\ last' = Call("plot_scatter", NA, {x_column, y_column},
                    plot_scatter(df, x_column, y_column))
    /\ UNCHANGED << df, benchmark, fresh >>

PlotHeatmap ==
  /\ last' = Call("plot_heatmap", NA, {}, plot_heatmap(df))
  /\ UNCHANGED << df, benchmark, fresh >>

Next ==
  \/ GetReturns
  \/ CalculateSharpeRatio
  \/ CalculateSortinoRatio
  \/ CalculateMaxDrawdown
  \/ CalculateVolatility
  \/ CalculateBeta
  \/ CalculateAlpha
  \/ CalculateCorrelation
  \/ CalculateMetrics
  \/ PlotPrice
  \/ PlotReturns
  \/ PlotCorrelationMatrix
  \/ PlotMovingAverage
  \/ PlotVolatility
  \/ PlotHistogram
  \/ PlotBoxplot
  \/ PlotTimeSeries
  \/ PlotScatter
  \/ PlotHeatmap

Spec == Init /\ [][Next]_vars

(***************************************************************************)
(* Vocabulary of the properties.                                           *)
(***************************************************************************)
MetricOps ==
  {"calculate_sharpe_ratio", "calculate_sortino_ratio",
   "calculate_max_drawdown", "calculate_volatility", "calculate_beta",
   "calculate_alpha", "calculate_correlation", "calculate_metrics"}

\* the result of metric op on table d with benchmark b and risk-free rate rf
MetricEval(op, d, b, rf) ==
  CASE op = "calculate_sharpe_ratio" -> calculate_sharpe_ratio(d, rf)
    [] op = "calculate_sortino_ratio" -> calculate_sortino_ratio(d, rf)
    [] op = "calculate_max_drawdown" -> calculate_max_drawdown(d)
    [] op = "calculate_volatility" -> calculate_volatility(d)
    [] op = "calculate_beta" -> calculate_beta(d, b)
    [] op = "calculate_alpha" -> calculate_alpha(d, b, rf)
    [] op = "calculate_correlation" -> calculate_correlation(d, b)
    [] op = "calculate_metrics" -> calculate_metrics(d, b, rf)

HasAdj == AdjClose \in df.columns
NRows == Len(df.adj)
Price(i) == df.adj[i].n

\* the return series as the specification defines it:
\* R[i] = price[i+1]/price[i] - 1, one entry per row after the first
R == [i \in 1..(NRows - 1) |-> Rat(Price(i + 1) - Price(i), Price(i))]

\* excess returns for risk-free rate rf
Excess(rf) == [i \in 1..Len(R) |-> RSub(R[i], Rat(rf.n, rf.d * TradingDays))]

\* sample variance (divisor n - 1) of a series x with n >= 2, by the
\* identity n (n - 1) s^2 = n sum(x^2) - (sum x)^2
SumOfSquares(x) == Sum([i \in 1..Len(x) |-> RMul(x[i], x[i])])
SampleVariance(x) ==
  LET n == Len(x)
  IN  RDiv(RSub(RMul([n |-> n, d |-> 1], SumOfSquares(x)), RMul(Sum(x), Sum(x))),
           [n |-> n * (n - 1), d |-> 1])

AllEqual(x) == \A i, j \in 1..Len(x) : x[i] = x[j]

\* the table with every price divided by the first price: the same returns
Rebased(d) ==
  [d EXCEPT !.adj = [i \in 1..Len(d.adj) |-> RDiv(d.adj[i], d.adj[1])]]

(***************************************************************************)
(* C1.  For a table with an 'Adj Close' column of N >= 2 prices,           *)
(* get_returns returns exactly N-1 returns, the i-th being                 *)
(* price[i+1]/price[i] - 1 (the first date has none); and every metric of  *)
(* MetricsCalculator is computed from that same return series: its result  *)
(* is the result on the table rebased to a first price of 1, which has the *)
(* same returns.                                                           *)
(***************************************************************************)
C1_ReturnsFormula ==
  /\ (last.op = "get_returns" /\ HasAdj) =>
       /\ last.res.outcome = "ok"
       /\ Len(last.res.value) = NRows - 1
       /\ \A i \in 1..(NRows - 1) :
            /\ last.res.value[i].d > 0
            /\ last.res.value[i].n * Price(i)
                 = (Price(i + 1) - Price(i)) * last.res.value[i].d
  /\ (last.op \in MetricOps /\ HasAdj) =>
       last.res = MetricEval(last.op, Rebased(df), benchmark, last.rf)

C1_Witness ==
  /\ last.op = "get_returns" /\ HasAdj /\ NRows = 3
  /\ last.res.outcome = "ok"
  /\ last.res.value[1].n < 0 /\ last.res.value[2].n > 0

(***************************************************************************)
(* C2.  When the table has no 'Adj Close' column, get_returns and every    *)
(* metric entry point end with the error raised for the missing column     *)
(* (ValueError from get_returns' own check, KeyError from the column       *)
(* lookup of the metrics), before any arithmetic, and return no value and  *)
(* no partial mapping.                                                     *)
(***************************************************************************)
InputErrors == {"ValueError", "KeyError"}

C2_MissingColumnFailsFirst ==
  (~HasAdj /\ last.op \in MetricOps \cup {"get_returns"}) =>
    /\ last.res.outcome \in InputErrors
    /\ last.res.value = NoValue
    /\ ~last.res.arith

C2_Witness ==
  /\ ~HasAdj
  /\ last.op = "calculate_metrics"
  /\ last.res.outcome = "KeyError"

(***************************************************************************)
(* C3.  For a table with an 'Adj Close' column, calculate_metrics returns  *)
(* a mapping with exactly the seven keys in the order Sharpe Ratio,        *)
(* Sortino Ratio, Max Drawdown, Volatility, Beta, Alpha, Correlation, and  *)
(* each value is the value the individual calculate_* function returns on  *)
(* the same table with the same benchmark and the same risk-free rate.     *)
(***************************************************************************)
C3_AggregateEqualsIndividual ==
  (last.op = "calculate_metrics" /\ HasAdj) =>
    /\ last.res.outcome = "ok"
    /\ [i \in 1..Len(last.res.value) |-> last.res.value[i].key]
         = << "Sharpe Ratio", "Sortino Ratio", "Max Drawdown", "Volatility",
              "Beta", "Alpha", "Correlation" >>
    /\ last.res.value[1].value = calculate_sharpe_ratio(df, last.rf).value
    /\ last.res.value[2].value = calculate_sortino_ratio(df, last.rf).value
    /\ last.res.value[3].value = calculate_max_drawdown(df).value
    /\ last.res.value[4].value = calculate_volatility(df).value
    /\ last.res.value[5].value = calculate_beta(df, benchmark).value
    /\ last.res.value[6].value = calculate_alpha(df, benchmark, last.rf).value
    /\ last.res.value[7].value = calculate_correlation(df, benchmark).value

C3_Witness ==
  /\ last.op = "calculate_metrics" /\ HasAdj /\ NRows = 3
  /\ last.rf = Zero
  /\ last.res.outcome = "ok"
  /\ IsFinite(last.res.value[2].value)
  /\ IsFinite(last.res.value[6].value)

(***************************************************************************)
(* C4.  For a positive price series, calculate_max_drawdown is 100 times   *)
(* the least (level[t] - peak[t]) / peak[t], where level starts at 1 (the  *)
(* first price) and peak[t] is the greatest level up to t: a decline from  *)
(* the first price counts.  In prices: the least over t of                 *)
(* price[t] / max(price[1..t]) - 1, over every row t.                      *)
(***************************************************************************)
RECURSIVE PeakPrice(_)
PeakPrice(t) ==
  IF t = 1 THEN Price(1)
  ELSE IF PeakPrice(t - 1) < Price(t) THEN Price(t) ELSE PeakPrice(t - 1)

DrawdownFromFirstPrice ==
  Least([t \in 1..NRows |-> Rat(Price(t) - PeakPrice(t), PeakPrice(t))])

C4_DrawdownCountsFirstPrice ==
  (last.op = "calculate_max_drawdown" /\ HasAdj) =>
    /\ last.res.outcome = "ok"
    /\ last.res.value = Fin(RMul(DrawdownFromFirstPrice, [n |-> Percent, d |-> 1]))

NonNegative(x) == (x.k = "fin" /\ FSign(x) >= 0) \/ (x.k = "inf" /\ FSign(x) > 0)

C6_VolatilityNonNegativeFromTwoRows ==
  (last.op = "calculate_volatility" /\ HasAdj /\ NRows >= 2) =>
    /\ last.res.outcome = "ok"
    /\ NonNegative(last.res.value)

(***************************************************************************)
(* C6 as amended.  For a price series with at least 3 rows                 *)
(* calculate_volatility returns a finite value >= 0 equal to the sample    *)
(* standard deviation (divisor n - 1) of the returns times sqrt(252)       *)
(* times 100; for a series of exactly 2 rows (a single return) it returns  *)
(* NaN.                                                                    *)
(***************************************************************************)
C6_VolatilityFromThreeRows ==
  (last.op = "calculate_volatility" /\ HasAdj) =>
    /\ last.res.outcome = "ok"
    /\ NRows = 2 => IsNaN(last.res.value)
    /\ NRows >= 3 =>
         /\ IsFinite(last.res.value)
         /\ FSign(last.res.value) >= 0
         /\ IF SampleVariance(R) = Zero THEN IsZero(last.res.value)
            ELSE /\ last.res.value.q = [n |-> Percent, d |-> 1]
                 /\ last.res.value.r
                      = RMul(SampleVariance(R), [n |-> TradingDays, d |-> 1])

C6_Witness ==
  /\ last.op = "calculate_volatility" /\ HasAdj /\ NRows = 3
  /\ ~AllEqual(R)
  /\ IsFinite(last.res.value) /\ FSign(last.res.value) > 0

(***************************************************************************)
(* C7.  When the returns are not all equal (non-zero variance) and the     *)
(* benchmark is the table's own return series, calculate_beta returns 1    *)
(* and calculate_alpha, for any risk-free rate, returns 0.                 *)
(***************************************************************************)
C7_BetaOfSelfIsOne ==
  (HasAdj /\ benchmark = R /\ ~AllEqual(R)) =>
    /\ last.op = "calculate_beta" => last.res.value = Num(1)
    /\ last.op = "calculate_alpha" => last.res.value = Num(0)

C7_Witness ==
  /\ HasAdj /\ benchmark = R /\ ~AllEqual(R)
  /\ last.op = "calculate_alpha"
  /\ last.rf = DefaultRiskFreeRate
  /\ last.res.value = Num(0)

(***************************************************************************)
(* C8.  After any sequence of calls the stored table and the benchmark     *)
(* series are as they were at construction, and the last metric call       *)
(* returned what the same call with the same arguments returns on a fresh  *)
(* instance holding the same table.                                        *)
(***************************************************************************)
C8_CallsArePure ==
  /\ df = fresh.df
  /\ benchmark = fresh.benchmark
  /\ last.op \in MetricOps =>
       last.res = MetricEval(last.op, fresh.df, fresh.benchmark, last.rf)

C8_Witness ==
  /\ HasAdj /\ NRows = 3
  /\ last.op = "calculate_correlation"
  /\ IsFinite(last.res.value) /\ FSign(last.res.value) < 0
  /\ df = fresh.df

(***************************************************************************)
(* C9.  Every plotting operation that needs a column absent from the       *)
(* table fails with an error before any figure is created and before any   *)
(* drawing or display step.                                                *)
(***************************************************************************)
AdjClosePlots ==
  {"plot_price", "plot_returns", "plot_moving_average", "plot_volatility"}
ColumnPlots ==
  {"plot_histogram", "plot_boxplot", "plot_time_series", "plot_scatter"}

NeedsAbsentColumn ==
  \/ last.op \in AdjClosePlots /\ ~HasAdj
  \/ last.op \in ColumnPlots /\ \E col \in last.cols : col \notin df.columns

C9_PlotFailsBeforeFigure ==
  NeedsAbsentColumn =>
    /\ last.res.outcome \in InputErrors
    /\ ~last.res.figure
    /\ ~last.res.drawn
    /\ ~last.res.shown

(***************************************************************************)
(* C10.  calculate_sortino_ratio returns a non-finite value whenever fewer *)
(* than two excess returns are negative; with two or more negative excess  *)
(* returns that are not all equal it returns the finite value sqrt(252)    *)
(* times the mean of all excess returns divided by the sample standard     *)
(* deviation (divisor n - 1) of the negative excess returns.               *)
(***************************************************************************)
Downside(rf) == SelectSeq(Excess(rf), LAMBDA x : RLess(x, Zero))

C10_SortinoDownsideDeviation ==
  (last.op = "calculate_sortino_ratio" /\ HasAdj) =>
    LET e == Excess(last.rf)
        down == Downside(last.rf)
        m == RDiv(Sum(e), [n |-> Len(e), d |-> 1])
    IN  /\ Len(down) < 2 => ~IsFinite(last.res.value)
        /\ (Len(down) >= 2 /\ ~AllEqual(down)) =>
             /\ IsFinite(last.res.value)
             /\ IF m = Zero THEN IsZero(last.res.value)
                ELSE /\ last.res.value.q = m
                     /\ last.res.value.r
                          = RDiv([n |-> TradingDays, d |-> 1], SampleVariance(down))

C10_Witness ==
  /\ last.op = "calculate_sortino_ratio" /\ HasAdj
  /\ Len(Downside(last.rf)) >= 2 /\ ~AllEqual(Downside(last.rf))
  /\ IsFinite(last.res.value) /\ FSign(last.res.value) < 0

====
